---- MODULE Spec2Model ----
(***************************************************************************)
(* Model of the health-calendar program (src/main.go): the recurring-event *)
(* creation loop, the persisted title -> event id store, and the           *)
(* cleanup-then-recreate driver.                                           *)
(*                                                                         *)
(* Strings (titles, event ids, clock strings) are sequences of one-        *)
(* character strings.  Dates are day numbers; day 0 is a Sunday.           *)
(***************************************************************************)
EXTENDS Integers, Sequences, FiniteSets, TLC

VARIABLES
    pc,          \* position of the program: idle, cleanup, main, loop, done (store, saved, reloaded for the store on its own; anchor, week, built, failed for the time anchor on its own)
    entry,       \* the main that is installed: "recreate" (l.492) or "create" (l.153)
    templates,   \* the template list of the running main
    ti,          \* index of main's range loop over templates
    di,          \* index of createRecurringEvent's range loop over daysOfWeek
    now,         \* time.Now() read by the current createRecurringEvent call
    startDate,   \* startDate of the current createRecurringEvent call
    lastEventId, \* lastEventId of the current createRecurringEvent call
    eventIds,    \* main's eventIds map
    toDelete,    \* deleteExistingEvents: entries of the loaded map not yet ranged over
    file,        \* event_ids.json
    remote,      \* events held by the remote calendar
    nextId,      \* number of ids the remote calendar has handed out
    clock,       \* the current day
    runs,        \* number of runs started
    cleanupErr,  \* error value returned by deleteExistingEvents in this run
    saveErr,     \* error value returned by saveEventIds in this run
    loaded,      \* the map the last loadEventIds call returned
    loadErr,     \* the error value the last loadEventIds call returned
    createLog,   \* history: Insert requests of this run
    deleteLog,   \* history: Delete requests of this run
    returned,    \* history: titles whose createRecurringEvent returned, with the error flag
    fileAtStart, \* history: event_ids.json when this run started
    stale,       \* history: titles stored at run start whose event was gone by then
    prev,        \* history: summary of the previous run
    tampered,    \* history: remote state changed out-of-band since the previous run ended
    faults,      \* number of failures injected so far (gateway errors, failed writes)
    oob,         \* number of out-of-band deletions so far
    local        \* time.Local of the host: its offset from UTC in hours

vars == <<pc, entry, templates, ti, di, now, startDate, lastEventId, eventIds,
          toDelete, file, remote, nextId, clock, runs, cleanupErr, saveErr,
          loaded, loadErr, createLog, deleteLog, returned, fileAtStart, stale,
          prev, tampered, faults, oob, local>>

(***************************************************************************)
(* Bounds                                                                  *)
(***************************************************************************)
MaxRuns == 2
MaxFaults == 1
MaxOutOfBand == 1
MaxStrLen == 1
MaxEntries == 2
MaxDay == 13
MaxWeekdays == 2

----------------------------------------------------------------------------
(***************************************************************************)
(* time.Weekday and the week anchor                                        *)
(***************************************************************************)
Sunday == 0
Monday == 1
Tuesday == 2
Wednesday == 3
Thursday == 4
Friday == 5
Saturday == 6

Weekday(d) == d % 7

\* variant: the days left until the next Sunday
daysUntilSunday(n) == (7 - Weekday(n)) % 7

daysUntilMonday(n) == (8 - Weekday(n)) % 7

nextWeekStart(n) == n + daysUntilMonday(n)

\* variant: the number of the weekday is taken as the offset from the week start
dayOffsetFromSunday(day, start) == day

dayOffset(day, start) == (day - Weekday(start) + 7) % 7

eventStart(day, start) == start + dayOffset(day, start)

----------------------------------------------------------------------------
(***************************************************************************)
(* time.Parse("15:04", s): an hour of one or two digits in 0..23, a colon, *)
(* a minute of exactly two digits in 0..59, and nothing after it.          *)
(***************************************************************************)
Digits == <<"0", "1", "2", "3", "4", "5", "6", "7", "8", "9">>

IsDigit(c) == \E i \in 1..10 : Digits[i] = c

DigitVal(c) == (CHOOSE i \in 1..10 : Digits[i] = c) - 1

ParseClock(s) ==
    LET twoHour == Len(s) >= 2 /\ IsDigit(s[1]) /\ IsDigit(s[2])
        hlen    == IF twoHour THEN 2 ELSE 1
        shape   == /\ Len(s) = hlen + 3
                   /\ IsDigit(s[1])
                   /\ s[hlen + 1] = ":"
                   /\ IsDigit(s[hlen + 2])
                   /\ IsDigit(s[hlen + 3])
        hour    == IF twoHour THEN 10 * DigitVal(s[1]) + DigitVal(s[2])
                              ELSE DigitVal(s[1])
        minute  == 10 * DigitVal(s[hlen + 2]) + DigitVal(s[hlen + 3])
    IN  IF shape /\ hour <= 23 /\ minute <= 59
        THEN [ok |-> TRUE, hour |-> hour, minute |-> minute]
        ELSE [ok |-> FALSE, hour |-> 0, minute |-> 0]

----------------------------------------------------------------------------
(***************************************************************************)
(* Instants and zones.  An instant is a number of minutes since 00:00 UTC  *)
(* of day 0; a zone is its offset from UTC in hours.                       *)
(***************************************************************************)
\* timeZone := "Asia/Jakarta"
timeZone == 7

\* the zone of the host on which the runs are made
Local == timeZone

\* time.Date(year, month, day, hour, min, 0, 0, loc)
Date(date, hour, minute, loc) == (date * 24 + hour - loc) * 60 + minute

\* finalStartTime: the parsed clock on the day of eventStart, in
\* eventStart.Location(), which is the zone of time.Now()
finalStartTime(date, t, loc) == Date(date, t.hour, t.minute, loc)

\* finalStartTime.Add(template.duration), the duration in minutes
finalEndTime(start, duration) == start + duration

\* the calendar.Event built for one weekday of a template
Event(template, day, start, t, loc) ==
    LET date == eventStart(day, start)
        from == finalStartTime(date, t, loc)
    IN  [summary |-> template.summary,
         date |-> date, hour |-> t.hour, minute |-> t.minute,
         start |-> from, end |-> finalEndTime(from, template.duration),
         timeZone |-> timeZone]

----------------------------------------------------------------------------
(***************************************************************************)
(* encoding/json as used by saveEventIds and loadEventIds.  A JSON string  *)
(* is a sequence of tokens: an opening quote, one token per character (the *)
(* character itself or its escape), a closing quote.  The file is the      *)
(* sequence of the members of "event_ids", in the order Marshal writes     *)
(* them (sorted by key).                                                   *)
(***************************************************************************)
Quote == "\""
Backslash == "\\"

\* the characters the titles and ids of the model are made of, in byte order
Alphabet == <<Quote, "0", "1", "2", "3", "4", "5", "6", "7", "8", "9",
              "<", "A", "B", "C", "D", "E", "Z", Backslash, "e">>

CharRank(c) == CHOOSE i \in 1..Len(Alphabet) : Alphabet[i] = c

\* variant: the quote is written unescaped
EscapeCharRawQuote(c) ==
    CASE c = Backslash -> "\\\\"
      [] c = "<"       -> "\\u003c"
      [] OTHER         -> c

\* Marshal escapes the quote, the backslash and (HTML escaping) <, >, &
EscapeChar(c) ==
    CASE c = Quote     -> "\\\""
      [] c = Backslash -> "\\\\"
      [] c = "<"       -> "\\u003c"
      [] OTHER         -> c

encodeString(s) == <<Quote>> \o [i \in 1..Len(s) |-> EscapeChar(s[i])] \o <<Quote>>

\* a token inside a JSON string that Unmarshal accepts
ValidToken(t) == t # Quote /\ t # Backslash

UnescapeToken(t) ==
    CASE t = "\\\""   -> Quote
      [] t = "\\\\"   -> Backslash
      [] t = "\\u003c" -> "<"
      [] OTHER        -> t

decodeString(e) ==
    IF /\ Len(e) >= 2
       /\ e[1] = Quote
       /\ e[Len(e)] = Quote
       /\ \A i \in 2..(Len(e) - 1) : ValidToken(e[i])
    THEN [ok |-> TRUE, val |-> [i \in 1..(Len(e) - 2) |-> UnescapeToken(e[i + 1])]]
    ELSE [ok |-> FALSE, val |-> <<>>]

\* byte order of two strings
StrLess(a, b) ==
    \E i \in 1..(Len(b)) :
        /\ \A j \in 1..(i - 1) : j <= Len(a) /\ a[j] = b[j]
        /\ \/ i > Len(a)
           \/ (i <= Len(a) /\ CharRank(a[i]) < CharRank(b[i]))

RECURSIVE SortedKeys(_)
SortedKeys(S) ==
    IF S = {} THEN <<>>
    ELSE LET k == CHOOSE x \in S : \A y \in S \ {x} : StrLess(x, y)
         IN  <<k>> \o SortedKeys(S \ {k})

EmptyMap == <<>>

Put(m, k, v) == (k :> v) @@ m

Absent == [kind |-> "absent", members |-> <<>>]
Garbage == [kind |-> "garbage", members |-> <<>>]

\* json.MarshalIndent(StoredEventIds{EventIds: eventIds})
MarshalIndent(m) ==
    LET keys == SortedKeys(DOMAIN m)
    IN  [kind |-> "json",
         members |-> [i \in 1..Len(keys) |->
                         [k |-> encodeString(keys[i]), v |-> encodeString(m[keys[i]])]]]

\* variant: the file is written only when there is no store file yet
WriteFileOnce(old, data) == IF old.kind = "json" THEN old ELSE data

\* os.WriteFile truncates the existing file and writes the data
WriteFile(old, data) == data

\* the file saveEventIds leaves behind when the write succeeds
saveEventIds(old, m) == WriteFile(old, MarshalIndent(m))

RECURSIVE UnmarshalMembers(_, _)
UnmarshalMembers(ms, acc) ==
    IF ms = <<>> THEN [ids |-> acc, err |-> FALSE]
    ELSE LET k == decodeString(Head(ms).k)
             v == decodeString(Head(ms).v)
         IN  IF k.ok /\ v.ok
             THEN UnmarshalMembers(Tail(ms), Put(acc, k.val, v.val))
             ELSE [ids |-> EmptyMap, err |-> TRUE]

loadEventIds(f) ==
    CASE f.kind = "absent"  -> [ids |-> EmptyMap, err |-> FALSE]
      [] f.kind = "garbage" -> [ids |-> EmptyMap, err |-> TRUE]
      [] OTHER              -> UnmarshalMembers(f.members, EmptyMap)

----------------------------------------------------------------------------
(***************************************************************************)
(* The template lists main is run with                                     *)
(***************************************************************************)
Standup == [summary |-> <<"A">>, startTime |-> <<"0", "9", ":", "0", "0">>,
            duration |-> 30, daysOfWeek |-> <<Tuesday, Thursday>>]
Weekly  == [summary |-> <<"B">>, startTime |-> <<"7", ":", "0", "0">>,
            duration |-> 90, daysOfWeek |-> <<Monday>>]
Weekend == [summary |-> <<"C">>, startTime |-> <<"1", "4", ":", "0", "0">>,
            duration |-> 45, daysOfWeek |-> <<Sunday>>]
BadTime == [summary |-> <<"D">>, startTime |-> <<"9", "A">>,
            duration |-> 15, daysOfWeek |-> <<Wednesday>>]
NoDays  == [summary |-> <<"E">>, startTime |-> <<"0", "9", ":", "0", "0">>,
            duration |-> 15, daysOfWeek |-> <<>>]

TemplateLists == { <<Standup, Weekly, Weekend>>,
                   <<Weekly>>,
                   <<Standup, BadTime, NoDays>> }

Titles(tl) == {tl[i].summary : i \in 1..Len(tl)}

(***************************************************************************)
(* The remote calendar: Insert hands out a fresh id, Delete removes the    *)
(* event with the given id and fails when there is none.                   *)
(***************************************************************************)
Id(n) == <<"e", Digits[(n \div 10) + 1], Digits[(n % 10) + 1]>>

RemoteIds == {e.id : e \in remote}

\* the events in the calendar made for a weekday that is not the last of its list
MidWeek == {e \in remote : ~e.final}

NoRun == [templates |-> <<>>, file |-> Absent, clean |-> FALSE, midweek |-> {}]

----------------------------------------------------------------------------
\* the days on which the program is run
ClockDays == {Monday, Saturday}

Init ==
    /\ pc = "idle"
    /\ entry \in {"create", "recreate"}
    /\ templates = <<>>
    /\ ti = 1
    /\ di = 1
    /\ now = 0
    /\ startDate = 0
    /\ lastEventId = <<>>
    /\ eventIds = EmptyMap
    /\ toDelete = EmptyMap
    /\ file \in {Absent, Garbage}
    /\ remote = {}
    /\ nextId = 0
    /\ clock \in ClockDays
    /\ runs = 0
    /\ cleanupErr = FALSE
    /\ saveErr = FALSE
    /\ loaded = EmptyMap
    /\ loadErr = FALSE
    /\ createLog = <<>>
    /\ deleteLog = <<>>
    /\ returned = <<>>
    /\ fileAtStart = Absent
    /\ stale = {}
    /\ prev = NoRun
    /\ tampered = FALSE
    /\ faults = 0
    /\ oob = 0
    /\ local = Local

\* the titles of a store file whose recorded event is not in the calendar
StaleTitles(f) ==
    LET r == loadEventIds(f)
    IN  {t \in DOMAIN r.ids : r.ids[t] \notin RemoteIds}

\* history variables reset when a run starts
StartHistory ==
    /\ createLog' = <<>>
    /\ deleteLog' = <<>>
    /\ returned' = <<>>
    /\ fileAtStart' = file
    /\ stale' = StaleTitles(file)
    /\ cleanupErr' = FALSE
    /\ saveErr' = FALSE

\* variant: main starts from the stored map instead of an empty one
keepEventIds == loadEventIds(file).ids

\* eventIds := make(map[string]string)
makeEventIds == EmptyMap

(* main (l.153-301) up to its range loop: build the templates and make    *)
(* the empty eventIds map (l.284)                                          *)
mainCreate ==
    /\ pc = "idle"
    /\ runs < MaxRuns
    /\ entry = "create"
    /\ \E tl \in TemplateLists : templates' = tl
    /\ runs' = runs + 1
    /\ eventIds' = makeEventIds
    /\ ti' = 1
    /\ pc' = "main"
    /\ StartHistory
    /\ UNCHANGED <<entry, local, di, now, startDate, lastEventId, toDelete, file, remote,
                   nextId, clock, loaded, loadErr, prev, tampered, faults, oob>>

\* variant: only the entries of the titles of this run's templates are taken
rangeListedTitles(ids, tl) == [t \in (DOMAIN ids) \cap Titles(tl) |-> ids[t]]

\* for summary, eventId := range eventIds: every entry of the loaded map (l.481)
rangeEventIds(ids, tl) == ids

(* main (l.492-655) up to the call of deleteExistingEvents, and that       *)
(* function's loadEventIds (l.475-479), for a main whose template list is  *)
(* one of lists                                                            *)
mainRecreateOf(lists) ==
    /\ pc = "idle"
    /\ runs < MaxRuns
    /\ entry = "recreate"
    /\ \E tl \in lists :
         /\ templates' = tl
         /\ LET r == loadEventIds(file)
            IN  /\ loaded' = r.ids
                /\ loadErr' = r.err
                /\ toDelete' = IF r.err THEN EmptyMap ELSE rangeEventIds(r.ids, tl)
    /\ runs' = runs + 1
    /\ StartHistory
    /\ pc' = "cleanup"
    /\ UNCHANGED <<entry, local, ti, di, now, startDate, lastEventId, eventIds, file,
                   remote, nextId, clock, prev, tampered, faults, oob>>

mainRecreate == mainRecreateOf(TemplateLists)

\* the map without key k
Without(m, k) == [x \in (DOMAIN m) \ {k} |-> m[x]]

\* variant: deleteExistingEvents returns the error of the first failed Delete
afterDeleteReturns(summary, ok) ==
    IF ok
    THEN toDelete' = Without(toDelete, summary) /\ UNCHANGED cleanupErr
    ELSE toDelete' = EmptyMap /\ cleanupErr' = TRUE

\* a failed Delete is printed and the range loop goes on (l.484-487)
afterDelete(summary, ok) ==
    /\ toDelete' = Without(toDelete, summary)
    /\ UNCHANGED cleanupErr

\* variant: the Delete removes every event with the title
DeleteByTitle(eventId, summary) == {e \in remote : e.summary # summary}

\* srv.Events.Delete("primary", eventId).Do() without error
Delete(eventId, summary) == {e \in remote : e.id # eventId}

(* deleteExistingEvents, one iteration of the range loop (l.481-487); Go  *)
(* ranges over a map in no fixed order                                     *)
deleteExistingEvents ==
    /\ pc = "cleanup"
    /\ ~loadErr
    /\ \E summary \in DOMAIN toDelete : \E gatewayOk \in BOOLEAN :
         LET eventId == toDelete[summary]
             ok == gatewayOk /\ eventId \in RemoteIds
         IN  /\ gatewayOk \/ faults < MaxFaults
             /\ faults' = IF gatewayOk THEN faults ELSE faults + 1
             /\ remote' = IF ok THEN Delete(eventId, summary) ELSE remote
             /\ deleteLog' = Append(deleteLog,
                                    [summary |-> summary, id |-> eventId, ok |-> ok])
             /\ afterDelete(summary, ok)
    /\ UNCHANGED <<pc, entry, local, templates, ti, di, now, startDate, lastEventId,
                   eventIds, file, nextId, clock, runs, saveErr, loaded, loadErr,
                   createLog, returned, fileAtStart, stale, prev, tampered, oob>>

\* variant: main goes on while entries of the loaded map are still to be deleted
cleanupInBackground == TRUE

\* deleteExistingEvents returns after the failed load (l.477-479) or after
\* the range loop has taken every entry (l.489); each Delete call is
\* synchronous
cleanupReturns == loadErr \/ DOMAIN toDelete = {}

\* variant: cleanup saves an empty store when it is done
cleanupClearsStore == file' = saveEventIds(file, EmptyMap)

\* deleteExistingEvents reads event_ids.json and never writes it (l.475-490)
cleanupKeepsStore == UNCHANGED file

\* variant: main stops when deleteExistingEvents reports an error (log.Fatalf)
cleanupErrorFatal == pc' = IF loadErr THEN "done" ELSE "main"

\* main logs the error of deleteExistingEvents and goes on (l.630-632)
cleanupErrorLogged == pc' = "main"

(* deleteExistingEvents returns: the load error (l.477-479) or nil        *)
(* (l.489); main logs the error, sleeps, and makes the empty eventIds map  *)
(* (l.629-639)                                                             *)
cleanupDone ==
    /\ pc = "cleanup"
    /\ cleanupReturns
    /\ cleanupErr' = (cleanupErr \/ loadErr)
    /\ cleanupErrorLogged
    /\ cleanupKeepsStore
    /\ eventIds' = makeEventIds
    /\ ti' = 1
    /\ UNCHANGED <<entry, local, templates, di, now, startDate, lastEventId, toDelete,
                   remote, nextId, clock, runs, saveErr, loaded, loadErr,
                   createLog, deleteLog, returned, fileAtStart, stale, prev,
                   tampered, faults, oob>>

\* variant: lastEventId still holds what the call before left in it
keptLastEventId == lastEventId

\* var lastEventId string: the empty string (l.390)
varLastEventId == <<>>

(* main calls createRecurringEvent for the next template (l.640-642);     *)
(* createRecurringEvent computes the start of next week (l.385-390)        *)
callCreateRecurringEvent ==
    /\ pc = "main"
    /\ ti <= Len(templates)
    /\ now' = clock
    /\ startDate' = nextWeekStart(clock)
    /\ lastEventId' = varLastEventId
    /\ di' = 1
    /\ pc' = "loop"
    /\ UNCHANGED <<entry, local, templates, ti, eventIds, toDelete, file, remote, nextId,
                   clock, runs, cleanupErr, saveErr, loaded, loadErr, createLog,
                   deleteLog, returned, fileAtStart, stale, prev, tampered,
                   faults, oob>>

\* variant: main records the id of what was created before the error
recordPartialId == eventIds' = Put(eventIds, templates[ti].summary, lastEventId)

\* err != nil: main prints the error and records nothing (l.643-644)
printError == UNCHANGED eventIds

\* variant: main stops at the first error (log.Fatalf)
mainAbortsOnError ==
    /\ returned' = Append(returned, [summary |-> templates[ti].summary, err |-> TRUE])
    /\ pc' = "done"
    /\ UNCHANGED <<ti, eventIds>>

\* createRecurringEvent returned an error: main prints it and takes the
\* next template (l.643-644, l.290-293)
mainReportsError ==
    /\ returned' = Append(returned, [summary |-> templates[ti].summary, err |-> TRUE])
    /\ ti' = ti + 1
    /\ pc' = "main"
    /\ printError

\* variant: a clock that does not parse makes the loop take the next weekday
parseIgnored ==
    /\ di' = di + 1
    /\ UNCHANGED <<pc, ti, eventIds, returned>>
    /\ UNCHANGED <<lastEventId, remote, nextId, createLog, faults>>

\* time.Parse failed: createRecurringEvent returns "", err (l.397-400)
parseFailed ==
    /\ mainReportsError
    /\ UNCHANGED <<lastEventId, di, remote, nextId, createLog, faults>>

\* variant: a failed Insert is skipped and the loop takes the next weekday
insertSkipped ==
    /\ di' = di + 1
    /\ UNCHANGED <<lastEventId, pc, ti, eventIds, returned>>

\* variant: a failed Insert ends the loop and the id so far is returned as a success
insertErrorSwallowed ==
    /\ eventIds' = Put(eventIds, templates[ti].summary, lastEventId)
    /\ returned' = Append(returned, [summary |-> templates[ti].summary, err |-> FALSE])
    /\ ti' = ti + 1
    /\ pc' = "main"
    /\ UNCHANGED <<lastEventId, di>>

\* Insert failed: createRecurringEvent returns "", err (l.438-441)
insertFailed ==
    /\ mainReportsError
    /\ UNCHANGED <<lastEventId, di>>

\* variant: the id of the first created occurrence is kept
KeepFirst(last, id) == IF last = <<>> THEN id ELSE last

\* lastEventId = createdEvent.Id (l.442)
Latest(last, id) == id

RECURSIVE SkipRepeated(_)
\* variant: a weekday that was listed before is left out
SkipRepeated(daysOfWeek) ==
    IF daysOfWeek = <<>> THEN <<>>
    ELSE LET front == SkipRepeated(SubSeq(daysOfWeek, 1, Len(daysOfWeek) - 1))
             day == daysOfWeek[Len(daysOfWeek)]
         IN  IF \E i \in 1..Len(front) : front[i] = day
             THEN front
             ELSE Append(front, day)

\* for _, day := range template.daysOfWeek: every entry, in list order
Range(daysOfWeek) == daysOfWeek

(* createRecurringEvent, one iteration of the range loop over daysOfWeek  *)
(* (l.392-443)                                                             *)
createRecurringEvent ==
    /\ pc = "loop"
    /\ di <= Len(Range(templates[ti].daysOfWeek))
    /\ LET template == templates[ti]
           day == Range(template.daysOfWeek)[di]
           eventStartTime == ParseClock(template.startTime)
       IN  IF ~eventStartTime.ok
           THEN parseFailed
           ELSE \E gatewayOk \in BOOLEAN :
                  LET id == Id(nextId + 1)
                      final == di = Len(Range(template.daysOfWeek))
                      event == [id |-> id, final |-> final]
                                 @@ Event(template, day, startDate, eventStartTime, local)
                  IN  /\ gatewayOk \/ faults < MaxFaults
                      /\ faults' = IF gatewayOk THEN faults ELSE faults + 1
                      /\ createLog' = Append(createLog,
                             [summary |-> template.summary, day |-> day,
                              date |-> event.date, start |-> event.start,
                              id |-> id, ok |-> gatewayOk])
                      /\ remote' = IF gatewayOk THEN remote \cup {event} ELSE remote
                      /\ nextId' = IF gatewayOk THEN nextId + 1 ELSE nextId
                      /\ IF gatewayOk
                         THEN /\ lastEventId' = Latest(lastEventId, id)
                              /\ di' = di + 1
                              /\ UNCHANGED <<pc, ti, eventIds, returned>>
                         ELSE insertFailed
    /\ UNCHANGED <<entry, local, templates, now, startDate, toDelete, file, clock, runs,
                   cleanupErr, saveErr, loaded, loadErr, deleteLog, fileAtStart,
                   stale, prev, tampered, oob>>

(* createRecurringEvent returns lastEventId (l.445); main records it under *)
(* the template's summary (l.645-648, l.294)                               *)
createReturn ==
    /\ pc = "loop"
    /\ di > Len(Range(templates[ti].daysOfWeek))
    /\ eventIds' = Put(eventIds, templates[ti].summary, lastEventId)
    /\ returned' = Append(returned, [summary |-> templates[ti].summary, err |-> FALSE])
    /\ ti' = ti + 1
    /\ pc' = "main"
    /\ UNCHANGED <<entry, local, templates, di, now, startDate, lastEventId, toDelete,
                   file, remote, nextId, clock, runs, cleanupErr, saveErr, loaded,
                   loadErr, createLog, deleteLog, fileAtStart, stale, prev,
                   tampered, faults, oob>>

\* the events the Insert requests of this run made
CreatedInRun ==
    {e \in remote : \E i \in 1..Len(createLog) :
                      createLog[i].ok /\ createLog[i].id = e.id}

\* variant: a failed save is made up for by deleting the events of the run
saveErrorRollsBack == remote' = remote \ CreatedInRun

\* main logs the error of saveEventIds and returns (l.652-654, l.298-300)
saveErrorLogged == UNCHANGED remote

(* main saves the event ids after the last template (l.651-654,           *)
(* l.297-300); a failed write leaves the file as it was or cut short       *)
mainSave ==
    /\ pc = "main"
    /\ ti > Len(templates)
    /\ \E outcome \in {"ok", "unopened", "short"} :
         /\ file' = CASE outcome = "ok"       -> saveEventIds(file, eventIds)
                      [] outcome = "unopened" -> file
                      [] OTHER                -> Garbage
         /\ saveErr' = (outcome # "ok")
         /\ outcome = "ok" \/ faults < MaxFaults
         /\ faults' = IF outcome = "ok" THEN faults ELSE faults + 1
         /\ IF outcome = "ok" THEN UNCHANGED remote ELSE saveErrorLogged
    /\ pc' = "done"
    /\ UNCHANGED <<entry, local, templates, ti, di, now, startDate, lastEventId, eventIds,
                   toDelete, nextId, clock, runs, cleanupErr, loaded,
                   loadErr, createLog, deleteLog, returned, fileAtStart, stale,
                   prev, tampered, oob>>

\* every gateway call and file operation of the run succeeded
RunClean ==
    /\ ~cleanupErr
    /\ ~saveErr
    /\ \A i \in 1..Len(createLog) : createLog[i].ok
    /\ \A i \in 1..Len(deleteLog) : deleteLog[i].ok
    /\ \A i \in 1..Len(returned) : ~returned[i].err

(* the process exits: its memory is gone, the file and the calendar stay *)
exit ==
    /\ pc = "done"
    /\ pc' = "idle"
    /\ prev' = [templates |-> templates, file |-> file, clean |-> RunClean,
                midweek |-> MidWeek]
    /\ tampered' = FALSE
    /\ templates' = <<>>
    /\ ti' = 1
    /\ di' = 1
    /\ now' = 0
    /\ startDate' = 0
    /\ lastEventId' = <<>>
    /\ eventIds' = EmptyMap
    /\ loaded' = EmptyMap
    /\ loadErr' = FALSE
    /\ createLog' = <<>>
    /\ deleteLog' = <<>>
    /\ returned' = <<>>
    /\ fileAtStart' = Absent
    /\ stale' = {}
    /\ cleanupErr' = FALSE
    /\ saveErr' = FALSE
    /\ UNCHANGED <<entry, local, toDelete, file, remote, nextId, clock, runs, faults, oob>>

(* between runs somebody deletes by hand an event that the store records; *)
(* a run refers to the calendar's events by the recorded ids only, so the  *)
(* removal of any other event is nothing a run can see                     *)
outOfBandDelete ==
    /\ pc = "idle"
    /\ oob < MaxOutOfBand
    /\ oob' = oob + 1
    /\ LET stored == loadEventIds(file).ids
       IN  \E e \in remote :
             /\ \E t \in DOMAIN stored : stored[t] = e.id
             /\ remote' = remote \ {e}
    /\ tampered' = TRUE
    /\ UNCHANGED <<pc, entry, local, templates, ti, di, now, startDate, lastEventId,
                   eventIds, toDelete, file, nextId, clock, runs, cleanupErr,
                   saveErr, loaded, loadErr, createLog, deleteLog, returned,
                   fileAtStart, stale, prev, faults>>

Next ==
    \/ mainCreate
    \/ mainRecreate
    \/ deleteExistingEvents
    \/ cleanupDone
    \/ callCreateRecurringEvent
    \/ createRecurringEvent
    \/ createReturn
    \/ mainSave
    \/ exit
    \/ outOfBandDelete

Spec == Init /\ [][Next]_vars

----------------------------------------------------------------------------
(***************************************************************************)
(* Vocabulary of the properties                                            *)
(***************************************************************************)
\* the title -> id mapping a store file holds
Stored(f) == loadEventIds(f).ids

\* the run has ended and its store was written
Persisted == pc = "done" /\ ~saveErr

\* the Insert requests of this run for a title, as indices of createLog
RequestsFor(t) == {i \in 1..Len(createLog) : createLog[i].summary = t}

\* the titles for which an Insert request of this run failed
FailedCreate == {createLog[i].summary : i \in {j \in 1..Len(createLog) : ~createLog[j].ok}}

\* the titles for which createRecurringEvent returned without error in this run
ReturnedOk == {returned[i].summary : i \in {j \in 1..Len(returned) : ~returned[j].err}}

\* every template of the list was handed to createRecurringEvent, in list order
AllProcessed ==
    /\ Len(returned) = Len(templates)
    /\ \A i \in 1..Len(returned) : returned[i].summary = templates[i].summary

Parses(tpl) == ParseClock(tpl.startTime).ok

\* the Insert requests of this run for a title, in the order they were made
RequestSeq(t) == SelectSeq(createLog, LAMBDA r : r.summary = t)

----------------------------------------------------------------------------
(* C1: when a run is executed twice in succession with the same template   *)
(* list, every gateway call and file operation succeeding and nothing      *)
(* changed out-of-band, the second run issues no create request and the    *)
(* store it persists equals the store persisted by the first run.          *)
C1_IdempotentRerun ==
    (/\ Persisted
     /\ runs >= 2
     /\ prev.clean
     /\ RunClean
     /\ ~tampered
     /\ prev.templates = templates)
    => (/\ createLog = <<>>
        /\ Stored(file) = Stored(prev.file))

(* C2: if the store holds an id for a title and the event with that id is  *)
(* gone from the calendar, a run in which the title's create requests      *)
(* succeed processes every template, creates a replacement event for the   *)
(* title and persists a store that maps the title to the replacement's     *)
(* id, which differs from the stale one.                                   *)
C2_SelfHealing ==
    (Persisted /\ stale # {})
    => (/\ AllProcessed
        /\ \A k \in 1..Len(templates) :
             LET t == templates[k].summary
             IN  (/\ t \in stale
                  /\ templates[k].daysOfWeek # <<>>
                  /\ Parses(templates[k])
                  /\ t \notin FailedCreate)
                 => (/\ t \in DOMAIN Stored(file)
                     /\ Stored(file)[t] # Stored(fileAtStart)[t]
                     /\ \E e \in remote : e.id = Stored(file)[t] /\ e.summary = t))

\* a run that found a stale id for a title has persisted a replacement
C2_Witness ==
    /\ Persisted
    /\ entry = "recreate"
    /\ \E i \in 1..Len(deleteLog) :
         /\ ~deleteLog[i].ok
         /\ deleteLog[i].summary \in stale
         /\ deleteLog[i].summary \in DOMAIN Stored(file)
         /\ deleteLog[i].summary \in ReturnedOk
         /\ Stored(file)[deleteLog[i].summary] \in RemoteIds

(* C3: when the create requests of exactly one template fail and no other  *)
(* request fails, the run hands every template of the list to              *)
(* createRecurringEvent, ends, and persists a store with an entry for      *)
(* every other template and none for the failing one.                      *)
C3_FailureIsolation ==
    (/\ Persisted
     /\ Cardinality(FailedCreate) = 1
     /\ \A k \in 1..Len(templates) : Parses(templates[k]))
    => (/\ AllProcessed
        /\ DOMAIN Stored(file) = Titles(templates) \ FailedCreate)

\* the middle template of a list of three failed, the run went on and persisted
C3_Witness ==
    /\ Persisted
    /\ Len(templates) = 3
    /\ FailedCreate = {templates[2].summary}
    /\ DOMAIN Stored(file) = {templates[1].summary, templates[3].summary}

(* C4 as stated: after all templates are processed the new store has an    *)
(* entry for a title (of a template with at least one weekday) if and only *)
(* if at least one create request for that template succeeded during the   *)
(* run.                                                                    *)
C4_EntryIffSomeCreateSucceeded ==
    Persisted
    => \A k \in 1..Len(templates) :
         LET t == templates[k].summary
         IN  templates[k].daysOfWeek # <<>>
             => (t \in DOMAIN Stored(file)
                 <=> \E i \in RequestsFor(t) : createLog[i].ok)

(* C4 amended: after all templates are processed the new store has an      *)
(* entry for a title if and only if no create request for that template    *)
(* failed during the run and its time-of-day parsed (or it has no          *)
(* weekday); a template whose first weekday's create succeeded and whose   *)
(* later weekday's create failed has no entry.                             *)
C4_EntryIffNoCreateFailed ==
    Persisted
    => \A k \in 1..Len(templates) :
         LET t == templates[k].summary
         IN  t \in DOMAIN Stored(file)
             <=> (/\ t \notin FailedCreate
                  /\ (templates[k].daysOfWeek = <<>> \/ Parses(templates[k])))

\* a template whose first create succeeded and whose second failed has no entry
C4_Witness ==
    /\ Persisted
    /\ \E t \in Titles(templates) :
         /\ \E i \in RequestsFor(t) : createLog[i].ok
         /\ \E i \in RequestsFor(t) : ~createLog[i].ok
         /\ t \notin DOMAIN Stored(file)

(* C5 as stated: if the create request for one weekday of a template       *)
(* fails, create requests are still issued for every remaining weekday of  *)
(* the same template.                                                      *)
C5_RemainingWeekdaysStillCreated ==
    pc = "done"
    => \A k \in 1..Len(templates) :
         (Parses(templates[k]) /\ templates[k].summary \in FailedCreate)
         => Cardinality(RequestsFor(templates[k].summary))
              = Len(templates[k].daysOfWeek)

(* C5 amended: if the create request for one weekday of a template fails,  *)
(* no create request is issued for the remaining weekdays of that          *)
(* template, and create requests are still issued for every remaining     *)
(* template (for each of its weekdays, as long as none of them fails in    *)
(* turn).                                                                   *)
C5_FailureEndsTemplateOnly ==
    pc = "done"
    => \A i \in 1..Len(createLog) :
         ~createLog[i].ok
         => (/\ \A j \in RequestsFor(createLog[i].summary) : j <= i
             /\ AllProcessed
             /\ \A k \in 1..Len(templates) :
                  Parses(templates[k])
                  => IF templates[k].summary \in FailedCreate
                     THEN RequestsFor(templates[k].summary) # {}
                     ELSE Cardinality(RequestsFor(templates[k].summary))
                            = Len(templates[k].daysOfWeek))

\* the first weekday of a two-weekday template failed, the second was not
\* requested, and a later template got its requests
C5_Witness ==
    /\ pc = "done"
    /\ Len(templates) >= 2
    /\ Len(templates[1].daysOfWeek) = 2
    /\ Cardinality(RequestsFor(templates[1].summary)) = 1
    /\ templates[1].summary \in FailedCreate
    /\ RequestsFor(templates[2].summary) # {}

(* C6: for a template whose create requests all succeed, the id recorded   *)
(* for its title in the new store is the id the calendar returned for the  *)
(* create of the last weekday of its weekday list, and no id of an earlier *)
(* weekday.                                                                *)
C6_LastOccurrenceWins ==
    Persisted
    => \A k \in 1..Len(templates) :
         LET t == templates[k].summary
             days == templates[k].daysOfWeek
             reqs == RequestsFor(t)
         IN  (days # <<>> /\ Parses(templates[k]) /\ t \notin FailedCreate)
             => \E last \in reqs :
                  /\ \A j \in reqs : j <= last
                  /\ Cardinality(reqs) = Len(days)
                  /\ createLog[last].day = days[Len(days)]
                  /\ Stored(file)[t] = createLog[last].id
                  /\ \A j \in reqs \ {last} : Stored(file)[t] # createLog[j].id

\* a two-weekday template without a stored id got two events; the store has the second
C6_Witness ==
    /\ Persisted
    /\ \E k \in 1..Len(templates) :
         LET t == templates[k].summary
         IN  /\ t \notin DOMAIN Stored(fileAtStart)
             /\ Len(templates[k].daysOfWeek) = 2
             /\ Cardinality(RequestsFor(t)) = 2
             /\ t \notin FailedCreate
             /\ \E i \in RequestsFor(t) :
                  /\ createLog[i].day = templates[k].daysOfWeek[2]
                  /\ Stored(file)[t] = createLog[i].id

(* C7: for every weekday of now the computed week start is between 1 and   *)
(* 7 days after now and never now itself; on a Monday it is the following  *)
(* Monday.                                                                 *)
C7_WeekStartStrictlyAfterNow ==
    pc = "loop" => (startDate - now >= 1 /\ startDate - now <= 7)

(* C8: cleanup issues exactly one delete request for every entry of the    *)
(* loaded store, with the recorded id; a failed delete neither prevents    *)
(* the delete requests for the remaining entries nor makes cleanup report  *)
(* an error.                                                               *)
C8_CleanupComplete ==
    (entry = "recreate" /\ pc \in {"main", "loop", "done"} /\ ~loadErr)
    => (/\ ~cleanupErr
        /\ Len(deleteLog) = Cardinality(DOMAIN loaded)
        /\ \A t \in DOMAIN loaded :
             \E i \in 1..Len(deleteLog) :
               /\ deleteLog[i].summary = t
               /\ deleteLog[i].id = loaded[t]
               /\ \A j \in 1..Len(deleteLog) : deleteLog[j].summary = t => j = i)

\* cleanup ended after a failed delete that was followed by another delete request
C8_Witness ==
    /\ entry = "recreate"
    /\ pc = "main"
    /\ ~cleanupErr
    /\ Len(deleteLog) >= 2
    /\ Len(deleteLog) = Cardinality(DOMAIN loaded)
    /\ \E i \in 1..(Len(deleteLog) - 1) : ~deleteLog[i].ok

(* C9: the store persisted at the end of a run holds only titles of        *)
(* templates processed successfully in that run, each with the id this     *)
(* run's createRecurringEvent returned; no entry of the previous store     *)
(* for another title or for a title whose create failed survives.          *)
C9_WholesaleReplace ==
    Persisted
    => (/\ DOMAIN Stored(file) \subseteq (Titles(templates) \cap ReturnedOk)
        /\ Stored(file) = eventIds
        /\ \A t \in DOMAIN Stored(fileAtStart) :
             (t \notin Titles(templates) \/ t \in FailedCreate)
             => t \notin DOMAIN Stored(file))

\* the previous store had a title outside this run's list and one whose create failed
C9_Witness ==
    /\ Persisted
    /\ \E t \in DOMAIN Stored(fileAtStart) : t \notin Titles(templates)
    /\ \E t \in DOMAIN Stored(fileAtStart) : t \in FailedCreate
    /\ DOMAIN Stored(file) # {}

----------------------------------------------------------------------------
(***************************************************************************)
(* The store on its own: saveEventIds and loadEventIds applied to          *)
(* mappings whose titles and ids contain the characters Marshal escapes.   *)
(***************************************************************************)
StoreChars == {"A", Quote, Backslash, "<"}

Strings(n) == UNION {[1..k -> StoreChars] : k \in 0..n}

StoreTitles == Strings(MaxStrLen)

StoreIds == {<<>>, <<Backslash, Quote>>, Id(1)}

RECURSIVE TitleSets(_)
TitleSets(n) ==
    IF n = 0 THEN {{}}
    ELSE LET smaller == TitleSets(n - 1)
         IN  smaller \cup {S \cup {k} : S \in smaller, k \in StoreTitles}

StoreMaps == UNION {[D -> StoreIds] : D \in TitleSets(MaxEntries)}

StoreInit ==
    /\ pc = "store"
    /\ eventIds \in StoreMaps
    /\ file = Absent
    /\ entry = "none"
    /\ templates = <<>>
    /\ ti = 1
    /\ di = 1
    /\ now = 0
    /\ startDate = 0
    /\ lastEventId = <<>>
    /\ toDelete = EmptyMap
    /\ remote = {}
    /\ nextId = 0
    /\ clock = 0
    /\ runs = 0
    /\ cleanupErr = FALSE
    /\ saveErr = FALSE
    /\ loaded = EmptyMap
    /\ loadErr = FALSE
    /\ createLog = <<>>
    /\ deleteLog = <<>>
    /\ returned = <<>>
    /\ fileAtStart = Absent
    /\ stale = {}
    /\ prev = NoRun
    /\ tampered = FALSE
    /\ faults = 0
    /\ oob = 0
    /\ local = Local

(* saveEventIds(eventIds) with a write that succeeds (l.448-457) *)
storeSave ==
    /\ pc = "store"
    /\ file' = saveEventIds(file, eventIds)
    /\ saveErr' = FALSE
    /\ pc' = "saved"
    /\ UNCHANGED <<entry, local, templates, ti, di, now, startDate, lastEventId, eventIds,
                   toDelete, remote, nextId, clock, runs, cleanupErr, loaded,
                   loadErr, createLog, deleteLog, returned, fileAtStart, stale,
                   prev, tampered, faults, oob>>

(* loadEventIds() (l.459-473) *)
storeLoad ==
    /\ pc \in {"store", "saved"}
    /\ loaded' = loadEventIds(file).ids
    /\ loadErr' = loadEventIds(file).err
    /\ pc' = "reloaded"
    /\ UNCHANGED <<entry, local, templates, ti, di, now, startDate, lastEventId, eventIds,
                   toDelete, file, remote, nextId, clock, runs, cleanupErr,
                   saveErr, createLog, deleteLog, returned, fileAtStart, stale,
                   prev, tampered, faults, oob>>

StoreNext ==
    \/ storeSave
    \/ storeLoad

SpecStore == StoreInit /\ [][StoreNext]_vars

(* C10: saving a non-empty title -> id mapping with saveEventIds and then  *)
(* loading it with loadEventIds returns a mapping equal to the one saved   *)
(* and no error; loading when the store file does not exist returns an     *)
(* empty mapping and no error.                                             *)
C10_StoreRoundTrip ==
    pc = "reloaded"
    => (/\ ~loadErr
        /\ (file.kind = "json" /\ eventIds # EmptyMap) => loaded = eventIds
        /\ file.kind = "absent" => loaded = EmptyMap)

\* a mapping of two titles with a quote, a < and an id with a backslash came back
C10_Witness ==
    /\ pc = "reloaded"
    /\ file.kind = "json"
    /\ Cardinality(DOMAIN eventIds) = 2
    /\ <<Quote>> \in DOMAIN eventIds
    /\ <<"<">> \in DOMAIN eventIds
    /\ eventIds[<<"<">>] = <<Backslash, Quote>>
    /\ loaded = eventIds
    /\ ~loadErr

----------------------------------------------------------------------------
(* C11: for a template with two or more weekdays only the id of the last  *)
(* weekday's event is recorded in the store a run leaves; no delete        *)
(* request of a later run names an event made for an earlier weekday, and  *)
(* when nothing changed out-of-band every such event of the earlier runs   *)
(* is still in the calendar at the end of a run, next to the ones this run *)
(* made again: the number of events of the title grows by the number of    *)
(* its non-final weekdays with every run whose creates for it succeed.     *)
C11_MidWeekUntracked ==
    /\ pc = "done"
       => LET stored == Stored(file)
              recorded == {stored[t] : t \in DOMAIN stored}
          IN  \A e \in remote : e.id \in recorded => e.final
    /\ \A i \in 1..Len(deleteLog) :
         \A e \in prev.midweek : deleteLog[i].id # e.id
    /\ (pc = "done" /\ ~tampered)
       => (/\ prev.midweek \subseteq remote
           /\ \A k \in 1..Len(templates) :
                LET t == templates[k].summary
                    days == templates[k].daysOfWeek
                IN  (Len(days) >= 2 /\ Parses(templates[k]) /\ t \notin FailedCreate)
                    => Cardinality({e \in MidWeek : e.summary = t})
                         = Cardinality({e \in prev.midweek : e.summary = t})
                           + Len(days) - 1)

\* the second run deleted the recorded event of a two-weekday title and made
\* both events again: two events of the first weekday, one of the last
C11_Witness ==
    /\ pc = "done"
    /\ entry = "recreate"
    /\ runs >= 2
    /\ ~tampered
    /\ \E k \in 1..Len(templates) :
         LET t == templates[k].summary
         IN  /\ templates[k].daysOfWeek = <<Tuesday, Thursday>>
             /\ \E i \in 1..Len(deleteLog) :
                  deleteLog[i].summary = t /\ deleteLog[i].ok
             /\ Cardinality({e \in remote : e.summary = t /\ ~e.final}) = 2
             /\ Cardinality({e \in remote : e.summary = t /\ e.final}) = 1

(* C12: a template with at least one weekday whose clock string does not   *)
(* parse gets no create request and no entry in the new store, its error   *)
(* is reported, and every template of the list is still handed to          *)
(* createRecurringEvent: the others that parse get their create requests.  *)
C12_UnparsableTimeSkipsTemplate ==
    pc = "done"
    => \A k \in 1..Len(templates) :
         LET t == templates[k].summary
         IN  (templates[k].daysOfWeek # <<>> /\ ~Parses(templates[k]))
             => (/\ RequestsFor(t) = {}
                 /\ t \notin DOMAIN eventIds
                 /\ Persisted => t \notin DOMAIN Stored(file)
                 /\ AllProcessed
                 /\ returned[k].err
                 /\ \A j \in 1..Len(templates) :
                      (Parses(templates[j]) /\ templates[j].daysOfWeek # <<>>)
                      => RequestsFor(templates[j].summary) # {})

\* the second template of three had a bad clock: the first and the third are
\* in the persisted store, the second is not and no request was made for it
C12_Witness ==
    /\ Persisted
    /\ Len(templates) = 3
    /\ ~Parses(templates[2])
    /\ templates[2].daysOfWeek # <<>>
    /\ RequestsFor(templates[2].summary) = {}
    /\ DOMAIN Stored(file) = {templates[1].summary, templates[3].summary}
    /\ RequestsFor(templates[1].summary) # {}

----------------------------------------------------------------------------
(***************************************************************************)
(* The time anchor on its own: the week start computed from every day of   *)
(* now, and the event built for every weekday from every week start, on    *)
(* hosts of several zones.                                                 *)
(***************************************************************************)
Days == 0..MaxDay

\* zones a host can be set to
HostZones == {-8, 0, timeZone, 9}

AnchorTemplates == {Standup, Weekly, BadTime}

AnchorInit ==
    /\ pc = "anchor"
    /\ clock \in Days
    /\ startDate \in Days
    /\ local \in HostZones
    /\ templates \in {<<t>> : t \in AnchorTemplates}
    /\ entry = "none"
    /\ ti = 1
    /\ di = 1
    /\ now = 0
    /\ lastEventId = <<>>
    /\ eventIds = EmptyMap
    /\ toDelete = EmptyMap
    /\ file = Absent
    /\ remote = {}
    /\ nextId = 0
    /\ runs = 0
    /\ cleanupErr = FALSE
    /\ saveErr = FALSE
    /\ loaded = EmptyMap
    /\ loadErr = FALSE
    /\ createLog = <<>>
    /\ deleteLog = <<>>
    /\ returned = <<>>
    /\ fileAtStart = Absent
    /\ stale = {}
    /\ prev = NoRun
    /\ tampered = FALSE
    /\ faults = 0
    /\ oob = 0

(* now := time.Now() and the start of the week (l.386-388) *)
anchorWeek ==
    /\ pc = "anchor"
    /\ now' = clock
    /\ startDate' = nextWeekStart(clock)
    /\ pc' = "week"
    /\ UNCHANGED <<entry, local, templates, ti, di, lastEventId, eventIds, toDelete,
                   file, remote, nextId, clock, runs, cleanupErr, saveErr, loaded,
                   loadErr, createLog, deleteLog, returned, fileAtStart, stale,
                   prev, tampered, faults, oob>>

(* the body of the weekday loop up to the built event (l.393-436), for a   *)
(* weekday and the startDate at hand                                       *)
anchorOccurrence ==
    /\ pc \in {"anchor", "week"}
    /\ \E day \in Sunday..Saturday :
         LET template == templates[ti]
             eventStartTime == ParseClock(template.startTime)
         IN  IF eventStartTime.ok
             THEN /\ createLog' = <<[day |-> day]
                                     @@ Event(template, day, startDate,
                                              eventStartTime, local)>>
                  /\ pc' = "built"
                  /\ UNCHANGED returned
             ELSE /\ returned' = <<[summary |-> template.summary, err |-> TRUE]>>
                  /\ pc' = "failed"
                  /\ UNCHANGED createLog
    /\ UNCHANGED <<entry, local, templates, ti, di, now, startDate, lastEventId,
                   eventIds, toDelete, file, remote, nextId, clock, runs,
                   cleanupErr, saveErr, loaded, loadErr, deleteLog, fileAtStart,
                   stale, prev, tampered, faults, oob>>

AnchorNext ==
    \/ anchorWeek
    \/ anchorOccurrence

SpecAnchor == AnchorInit /\ [][AnchorNext]_vars

(* C13: for every week start and every weekday the date of the occurrence  *)
(* is the week start plus (weekday - weekday(weekStart) + 7) mod 7, an     *)
(* offset in 0..6, and falls on the requested weekday; from a Monday,      *)
(* Wednesday is exactly two days later; the date is that function of the   *)
(* week start and the weekday whatever now, the host zone and the template *)
(* are.                                                                    *)
C13_ResolveOccurrence ==
    pc = "built"
    => LET e == createLog[1]
       IN  /\ e.date - startDate \in 0..6
           /\ e.date - startDate = (e.day - Weekday(startDate) + 7) % 7
           /\ Weekday(e.date) = e.day
           /\ (Weekday(startDate) = Monday /\ e.day = Wednesday)
              => e.date = startDate + 2

\* Wednesday resolved from the Monday that the week start computation gave
C13_Witness ==
    /\ pc = "built"
    /\ now # 0
    /\ startDate = nextWeekStart(now)
    /\ Weekday(startDate) = Monday
    /\ createLog[1].day = Wednesday
    /\ createLog[1].date = startDate + 2

(* C14: for every weekday of now, now + ((8 - weekday(now)) mod 7) days is *)
(* a Monday.                                                               *)
C14_WeekStartIsMonday ==
    pc = "week"
    => (/\ startDate = now + ((8 - Weekday(now)) % 7)
        /\ Weekday(startDate) = Monday)

\* the week start computed on a Wednesday is the Monday five days later
C14_Witness ==
    /\ pc = "week"
    /\ Weekday(now) = Wednesday
    /\ startDate = now + 5
    /\ Weekday(startDate) = Monday

(* C16: the start instant of the event built for an occurrence is the      *)
(* template's clock on the resolved date read in the zone the program      *)
(* names (timeZone), and the end instant is the start plus the duration,   *)
(* whatever the zone of the host is.                                       *)
C16_StartInTargetZone ==
    pc = "built"
    => LET e == createLog[1]
       IN  /\ e.start = Date(e.date, e.hour, e.minute, timeZone)
           /\ e.end = e.start + templates[ti].duration
           /\ e.timeZone = timeZone

(* C17: a template for which a create request failed ends the run with     *)
(* its error reported and without an entry for its title in the new store, *)
(* also when creates for earlier weekdays of it succeeded: their events    *)
(* stay in the calendar and their ids are recorded nowhere.                *)
C17_NoPartialId ==
    pc = "done"
    => \A k \in 1..Len(templates) :
         LET t == templates[k].summary
         IN  t \in FailedCreate
             => (/\ AllProcessed
                 /\ returned[k].err
                 /\ t \notin DOMAIN eventIds
                 /\ Persisted => t \notin DOMAIN Stored(file)
                 /\ \A i \in RequestsFor(t) :
                      createLog[i].ok
                      => (/\ createLog[i].id \in RemoteIds
                          /\ \A u \in DOMAIN Stored(file) :
                               Stored(file)[u] # createLog[i].id))

\* a title that was in the store lost its entry: its first weekday's event
\* was created, the create for the second failed
C17_Witness ==
    /\ Persisted
    /\ \E k \in 1..Len(templates) :
         LET t == templates[k].summary
             reqs == RequestSeq(t)
         IN  /\ t \in DOMAIN Stored(fileAtStart)
             /\ Len(reqs) = 2
             /\ reqs[1].ok
             /\ reqs[1].id \in RemoteIds
             /\ ~reqs[2].ok
             /\ returned[k].err
             /\ t \notin DOMAIN Stored(file)

(* C18: in the cleanup-then-recreate main a delete request is made only    *)
(* while no create request of the run has been made, and when the first    *)
(* (and any) create request is made, the delete request of every entry of  *)
(* the loaded store has been made and has returned and none is left to     *)
(* make.                                                                   *)
C18_DeletesBeforeCreates ==
    [][/\ Len(deleteLog') > Len(deleteLog)
          => (pc = "cleanup" /\ createLog = <<>> /\ createLog' = <<>>)
       /\ Len(createLog') > Len(createLog)
          => (/\ deleteLog' = deleteLog
              /\ toDelete = EmptyMap
              /\ (entry = "recreate" /\ ~loadErr)
                 => \A t \in DOMAIN loaded :
                      \E i \in 1..Len(deleteLog) :
                        deleteLog[i].summary = t /\ deleteLog[i].id = loaded[t])
      ]_vars

\* creates are under way after a cleanup of two delete requests
C18_Witness ==
    /\ entry = "recreate"
    /\ pc = "loop"
    /\ Len(deleteLog) >= 2
    /\ createLog # <<>>
    /\ toDelete = EmptyMap

(* C19: within a run event_ids.json is written by one step only, the save  *)
(* that follows the processing of the last template, and that step writes  *)
(* the run's eventIds map (or fails); the cleanup, also when it deletes    *)
(* the recorded events, and the processing of each template leave the      *)
(* file as it was.                                                         *)
C19_SinglePersistPoint ==
    [][/\ file' # file
          => (pc = "main" /\ ti > Len(templates) /\ pc' = "done")
       /\ (pc # "done" /\ pc' = "done")
          => (/\ AllProcessed
              /\ saveErr' \/ file' = MarshalIndent(eventIds))
       /\ pc = "done" => file' = file
      ]_vars

\* the run deleted a recorded event, made new ones and then replaced the file
C19_Witness ==
    /\ Persisted
    /\ entry = "recreate"
    /\ \E i \in 1..Len(deleteLog) : deleteLog[i].ok
    /\ createLog # <<>>
    /\ fileAtStart.kind = "json"
    /\ file # fileAtStart
    /\ Stored(file) = eventIds

(* C20: when loading the store fails for another reason than a missing     *)
(* file, the run makes no delete request, goes on, hands every template to *)
(* createRecurringEvent, which makes the create requests of its weekdays,  *)
(* and saves a fresh store with the ids of this run.                       *)
C20_ReadFailureAsEmpty ==
    (entry = "recreate" /\ loadErr /\ pc \in {"main", "loop", "done"})
    => (/\ deleteLog = <<>>
        /\ loaded = EmptyMap
        /\ toDelete = EmptyMap
        /\ pc = "done"
           => (/\ AllProcessed
               /\ \A k \in 1..Len(templates) :
                    (Parses(templates[k]) /\ templates[k].summary \notin FailedCreate)
                    => Cardinality(RequestsFor(templates[k].summary))
                         = Len(templates[k].daysOfWeek))
        /\ Persisted
           => (/\ file.kind = "json"
               /\ Stored(file) = eventIds
               /\ DOMAIN Stored(file) = ReturnedOk))

\* a run that found a malformed store made no delete request, created the
\* events of three templates and saved their ids
C20_Witness ==
    /\ Persisted
    /\ entry = "recreate"
    /\ loadErr
    /\ fileAtStart = Garbage
    /\ deleteLog = <<>>
    /\ Len(templates) = 3
    /\ Len(createLog) >= 3
    /\ Cardinality(DOMAIN Stored(file)) >= 2

----------------------------------------------------------------------------
(***************************************************************************)
(* One run of the create-only main from the point where its templates are  *)
(* built and its eventIds map is made (l.284): a single template with      *)
(* every weekday list up to MaxWeekdays entries, repeated weekdays         *)
(* included, on every weekday of now.                                      *)
(***************************************************************************)
FanOutDays == {Sunday, Tuesday, Friday}

WeekdayLists == UNION {[1..n -> FanOutDays] : n \in 0..MaxWeekdays}

FanOutTemplates ==
    {[summary |-> <<"F">>, startTime |-> <<"0", "9", ":", "0", "0">>,
      duration |-> 30, daysOfWeek |-> d] : d \in WeekdayLists}

FanOutInit ==
    /\ pc = "main"
    /\ entry = "create"
    /\ templates \in {<<t>> : t \in FanOutTemplates}
    /\ clock \in Sunday..Saturday
    /\ local = Local
    /\ runs = 1
    /\ eventIds = makeEventIds
    /\ ti = 1
    /\ di = 1
    /\ now = 0
    /\ startDate = 0
    /\ lastEventId = <<>>
    /\ toDelete = EmptyMap
    /\ file = Absent
    /\ remote = {}
    /\ nextId = 0
    /\ cleanupErr = FALSE
    /\ saveErr = FALSE
    /\ loaded = EmptyMap
    /\ loadErr = FALSE
    /\ createLog = <<>>
    /\ deleteLog = <<>>
    /\ returned = <<>>
    /\ fileAtStart = Absent
    /\ stale = {}
    /\ prev = NoRun
    /\ tampered = FALSE
    /\ faults = 0
    /\ oob = 0

FanOutNext ==
    \/ callCreateRecurringEvent
    \/ createRecurringEvent
    \/ createReturn
    \/ mainSave

SpecFanOut == FanOutInit /\ [][FanOutNext]_vars

(* C15: for a template without a stored id whose creates all succeed, the  *)
(* run makes exactly one create request per entry of its weekday list, in  *)
(* list order, each on the date of its weekday in the week that starts at  *)
(* the one week start computed from now; a weekday listed twice gets two   *)
(* create requests for the same date, each making its own event.           *)
C15_OccurrenceFanOut ==
    pc = "done"
    => \A k \in 1..Len(templates) :
         LET t == templates[k].summary
             days == templates[k].daysOfWeek
             reqs == RequestSeq(t)
             weekStart == nextWeekStart(clock)
         IN  (/\ t \notin DOMAIN Stored(fileAtStart)
              /\ Parses(templates[k])
              /\ t \notin FailedCreate)
             => (/\ Len(reqs) = Len(days)
                 /\ \A j \in 1..Len(reqs) :
                      /\ reqs[j].day = days[j]
                      /\ reqs[j].date = eventStart(days[j], weekStart)
                      /\ reqs[j].date - weekStart \in 0..6
                      /\ \E e \in remote : e.id = reqs[j].id /\ e.date = reqs[j].date
                 /\ \A i, j \in 1..Len(reqs) :
                      /\ days[i] = days[j] => reqs[i].date = reqs[j].date
                      /\ i # j => reqs[i].id # reqs[j].id)

\* a template that lists Sunday twice got two events on the same Sunday, on a
\* run made on a Wednesday
C15_Witness ==
    /\ pc = "done"
    /\ Weekday(clock) = Wednesday
    /\ \E k \in 1..Len(templates) :
         LET t == templates[k].summary
             reqs == RequestSeq(t)
         IN  /\ templates[k].daysOfWeek = <<Sunday, Sunday>>
             /\ t \notin DOMAIN Stored(fileAtStart)
             /\ Len(reqs) = 2
             /\ reqs[1].ok /\ reqs[2].ok
             /\ reqs[1].date = reqs[2].date
             /\ Cardinality({e \in remote : e.summary = t /\ e.date = reqs[1].date}) >= 2

----------------------------------------------------------------------------
(* C21: when the save at the end of a run fails, the run makes no further  *)
(* request: every event the run created is still in the calendar, the      *)
(* request histories are those of before the save, every template was      *)
(* processed, the file is the old one or a cut-short one, and the run ends *)
(* as every run does.                                                      *)
C21_WriteFailureNoRollback ==
    (pc = "done" /\ saveErr)
    => (/\ \A i \in 1..Len(createLog) :
             createLog[i].ok => createLog[i].id \in RemoteIds
        /\ \A i \in 1..Len(deleteLog) : \A j \in 1..Len(createLog) :
             deleteLog[i].id # createLog[j].id
        /\ AllProcessed
        /\ file \in {fileAtStart, Garbage}
        /\ ENABLED exit)

\* the save of a run that created the events of two titles failed, and the
\* events are in the calendar
C21_Witness ==
    /\ pc = "done"
    /\ saveErr
    /\ Cardinality(DOMAIN eventIds) >= 2
    /\ Cardinality(CreatedInRun) >= 2
    /\ \A t \in DOMAIN eventIds : eventIds[t] \in RemoteIds
    /\ file = fileAtStart

(* C22: every id in the store a run persisted is a non-empty id that the   *)
(* calendar returned for a successful create request of that same run for  *)
(* that title, for every template list, a template with an empty weekday   *)
(* list included.                                                          *)
C22_StoredIdsFromThisRun ==
    Persisted
    => LET stored == Stored(file)
       IN  \A t \in DOMAIN stored :
             /\ stored[t] # <<>>
             /\ \E i \in RequestsFor(t) :
                  createLog[i].ok /\ createLog[i].id = stored[t]

(* C22 amended: the store a run persisted has titles of that run's         *)
(* templates only; for a template with at least one weekday the id is a    *)
(* non-empty id that the calendar returned for a successful create request *)
(* of that same run for that title; for a template with an empty weekday   *)
(* list no create request was made and the id is the empty string.         *)
C22_StoredIdsProvenance ==
    Persisted
    => LET stored == Stored(file)
       IN  /\ DOMAIN stored \subseteq Titles(templates)
           /\ \A k \in 1..Len(templates) :
                LET t == templates[k].summary
                IN  t \in DOMAIN stored
                    => IF templates[k].daysOfWeek = <<>>
                       THEN stored[t] = <<>> /\ RequestsFor(t) = {}
                       ELSE /\ stored[t] # <<>>
                            /\ \E i \in RequestsFor(t) :
                                 createLog[i].ok /\ createLog[i].id = stored[t]

\* the persisted store has the id of a title's create of this run and the
\* empty id of a title without weekdays that came after it
C22_Witness ==
    /\ Persisted
    /\ \E j, k \in 1..Len(templates) :
         LET stored == Stored(file)
             t == templates[j].summary
             u == templates[k].summary
         IN  /\ j < k
             /\ {t, u} \subseteq DOMAIN stored
             /\ \E i \in RequestsFor(t) :
                  createLog[i].ok /\ createLog[i].id = stored[t]
             /\ templates[k].daysOfWeek = <<>>
             /\ stored[u] = <<>>

----------------------------------------------------------------------------
(***************************************************************************)
(* Consecutive runs of the cleanup-then-recreate main, from an empty       *)
(* calendar and no store file, with template lists of distinct titles that *)
(* have one weekday each; the list may change from run to run.             *)
(***************************************************************************)
SingleDayLists == { <<Weekly, Weekend>>,
                    <<Weekend>>,
                    <<Weekly, BadTime>> }

SingleInit ==
    /\ pc = "idle"
    /\ entry = "recreate"
    /\ file = Absent
    /\ remote = {}
    /\ clock \in ClockDays
    /\ local = Local
    /\ templates = <<>>
    /\ ti = 1
    /\ di = 1
    /\ now = 0
    /\ startDate = 0
    /\ lastEventId = <<>>
    /\ eventIds = EmptyMap
    /\ toDelete = EmptyMap
    /\ nextId = 0
    /\ runs = 0
    /\ cleanupErr = FALSE
    /\ saveErr = FALSE
    /\ loaded = EmptyMap
    /\ loadErr = FALSE
    /\ createLog = <<>>
    /\ deleteLog = <<>>
    /\ returned = <<>>
    /\ fileAtStart = Absent
    /\ stale = {}
    /\ prev = NoRun
    /\ tampered = FALSE
    /\ faults = 0
    /\ oob = 0

mainRecreateSingle == mainRecreateOf(SingleDayLists)

SingleNext ==
    \/ mainRecreateSingle
    \/ deleteExistingEvents
    \/ cleanupDone
    \/ callCreateRecurringEvent
    \/ createRecurringEvent
    \/ createReturn
    \/ mainSave
    \/ exit

SpecSingle == SingleInit /\ [][SingleNext]_vars

(* C23: from an empty calendar and an empty store, between and at the end  *)
(* of consecutive cleanup-then-recreate runs in which every gateway call   *)
(* and every store write succeeded, with distinct titles and one weekday   *)
(* per template, the ids of the events in the calendar are exactly the ids *)
(* in the persisted store, each under the title of its event.              *)
C23_NoOrphansSingleWeekday ==
    (pc \in {"idle", "done"} /\ faults = 0)
    => LET stored == Stored(file)
       IN  /\ RemoteIds = {stored[t] : t \in DOMAIN stored}
           /\ \A e \in remote :
                e.summary \in DOMAIN stored /\ stored[e.summary] = e.id

\* the second run had a shorter list than the first: both recorded events
\* were deleted and the one event made is the one in the store
C23_Witness ==
    /\ pc = "done"
    /\ faults = 0
    /\ runs >= 2
    /\ prev.templates = <<Weekly, Weekend>>
    /\ templates = <<Weekend>>
    /\ Len(deleteLog) = 2
    /\ \A i \in 1..Len(deleteLog) : deleteLog[i].ok
    /\ Cardinality(remote) = 1
    /\ RemoteIds = {Stored(file)[templates[1].summary]}

====
